---- MODULE Spec2Model ----
(***************************************************************************)
(* Model of src/model/network.rs: MtNetwork, a network trained with Oja's  *)
(* rule on a thread pool.  The module follows the concurrent protocol of   *)
(* MtNetwork::new, MtNetwork::train_iteration (Strategy A) and             *)
(* MtNetwork::train_complete_iterations (Strategy B): the calling thread,  *)
(* the work units it hands to the pool, the per-call mpsc channel and the  *)
(* Arc<Mutex<Sender>> the units share.                                     *)
(*                                                                         *)
(* ThreadPool, MnistData and oja_learning_rule are not part of network.rs; *)
(* they are modelled from their documented interface: the pool runs each   *)
(* submitted unit on some idle worker, the sample source returns sequences *)
(* of patches, the update rule mutates one weight vector in place.         *)
(*                                                                         *)
(* Values: a weight vector is the term [id, hist]: id names the random     *)
(* draw that created it, hist is the sequence of samples the update rule   *)
(* has been applied with, in order, each with the learning rate of that    *)
(* application.  A sample is the pair <<source, j>>.                       *)
(***************************************************************************)
EXTENDS Integers, Sequences, FiniteSets, Bags, TLC

\* ---- bounds of the model ------------------------------------------------
MaxNeurons == 2
MaxSectionSize == 2
MaxThreads == 2
MaxCalls == 1
MaxEpochs == 2
\* Longest sequence of training calls, in the specifications about sequences.
MaxCallSeq == 2

Calls == 1..(IF MaxCallSeq > MaxCalls THEN MaxCallSeq ELSE MaxCalls)

VARIABLES
    section_size,   \* MtNetwork.section_size (argument of new)
    threads,        \* MtNetwork.threads (argument of new)
    neurons,        \* MtNetwork.neurons (argument of new)
    lr,             \* MtNetwork.lr (argument of new)
    callLimit,      \* number of training calls the client program makes
    weights,        \* MtNetwork.weights, the stored population
    spawned,        \* worker threads spawned so far by ThreadPool::new
    callerPc,       \* position of the calling thread
    cur,            \* number of training calls started; the id of the latest
    i,              \* the calling thread's loop index
    new_weights,    \* train_iteration's local new_weights
    kind,           \* per call: "none", "A" (train_iteration), "B"
    status,         \* per call: "none", "active", "returned", "panicked"
    epochs,         \* per call: the _epoch / _epochs argument
    units,          \* per call: the section work units, in submission order
    agg,            \* per call: the aggregator unit of Strategy B
    chan,           \* per call: messages sent and not yet received
    rxAlive,        \* per call: the Receiver has not been dropped
    txCaller,       \* per call: the caller still holds its Arc of the sender
    lockHolder,     \* per call: unit holding the sender's Mutex, 0 if free
    poisoned,       \* per call: the Mutex is poisoned
    result,         \* per call: the population train_iteration returned
    received        \* per call: tag and size of each message its consumer
                    \* received, in arrival order (history)

config == <<section_size, threads, neurons, lr, callLimit>>
callerVars == <<callerPc, cur, i, new_weights>>
callVars == <<kind, status, epochs, result, received>>
chanVars == <<chan, rxAlive, txCaller, lockHolder, poisoned>>
vars == <<section_size, threads, neurons, lr, callLimit, weights, spawned,
          callerPc, cur,
          i, new_weights, kind, status, epochs, units, agg, chan,
          rxAlive, txCaller, lockHolder, poisoned, result, received>>

\* ---- values -------------------------------------------------------------

\* rng.gen() at construction: the k-th stored weight vector (1-based).
InitWeight(k) == [id |-> <<0, 0, k>>, hist |-> <<>>]

\* rng.gen() inside section unit u of Strategy B call c, for its j-th vector.
FreshWeight(c, u, j) == [id |-> <<c, u, j>>, hist |-> <<>>]

\* The learning rate handed to new: one value, the protocol never reads it.
LearningRate == "lr"

\* oja_learning_rule(&sample, &mut w, rate): one in-place update of w.
Oja(sample, w, rate) ==
    [w EXCEPT !.hist = Append(@, [sample |-> sample, lr |-> rate])]

\* mnist_data.get_section_vector(s): the patches of section s, 0-based s.
SectionVector(s) == [j \in 1..section_size |-> <<s, j - 1>>]

\* mnist_data.get_sized_patch(e): a prefix of e patches of the data set.
SizedPatch(e) == [k \in 1..e |-> <<-1, k - 1>>]

\* neurons / section_size, the number of sections.
NumSections == neurons \div section_size

\* Mutation of SliceLo: every slice starts at the first vector.
SliceLoZero(s) == 0

\* Bounds of the slice &self.weights[i*section_size .. section_size + i*section_size]
SliceLo(s) == s * section_size
SliceHi(s) == section_size + s * section_size

\* The slice index is in range (otherwise the indexing panics).
SliceInRange(s) == SliceHi(s) <= Len(weights)

\* Mutation of Slice: the offset i*section_size is forgotten.
SliceNoOffset(s) == SubSeq(weights, 1, section_size)

\* Vec::from(&self.weights[lo..hi]): a copy of the section's vectors.
Slice(s) == SubSeq(weights, SliceLo(s) + 1, SliceHi(s))

\* Mutation of AUnitBody: the update is applied twice to every vector.
AUnitBodyTwice(local, patches, rate) ==
    [j \in 1..Len(local) |->
        Oja(patches[j], Oja(patches[j], local[j], rate), rate)]

\* Body of a Strategy A work unit: one update per local weight vector.
AUnitBody(local, patches, rate) ==
    [j \in 1..Len(local) |-> Oja(patches[j], local[j], rate)]

\* i32::MAX.
I32Max == 2147483647

\* `_epochs as i32` for a count below 2^32: the low 32 bits, read as a signed
\* value (a count above i32::MAX becomes negative).
AsI32(e) == IF e <= I32Max THEN e ELSE ((e - I32Max) - 1) - I32Max - 1

\* Mutation of EpochLoopCount: the loop runs once per epoch.
EpochLoopAll(e) == e

\* Number of iterations of `for i in 0..((_epochs as i32) - 1)`.
EpochLoopCount(e) == IF AsI32(e) - 1 > 0 THEN AsI32(e) - 1 ELSE 0

\* The inner epoch loop on one weight vector: samples 0 .. e-2 in order.
RECURSIVE EpochLoop(_, _, _, _, _)
EpochLoop(w, data, k, n, rate) ==
    IF k >= n THEN w
    ELSE EpochLoop(Oja(data[k + 1], w, rate), data, k + 1, n, rate)

\* Body of a Strategy B section unit: section_size fresh vectors, each trained.
BUnitBody(c, u, e, rate) ==
    [j \in 1..section_size |->
        EpochLoop(FreshWeight(c, u, j), SizedPatch(e), 0, EpochLoopCount(e), rate)]

\* ---- the pool and the channel -------------------------------------------

UnitIds(c) == 1..Len(units[c])

\* A call submits at most threads (Strategy A) or neurons/section_size
\* (Strategy B) section units.
UnitSlots == 1..(IF MaxThreads > MaxNeurons THEN MaxThreads ELSE MaxNeurons)

\* Work units of call c that occupy a pool worker.
BusyIn(c) ==
    Cardinality({u \in UnitIds(c) : units[c][u].pc \in {"lock", "send"}})
    + (IF agg[c].pc = "recv" THEN 1 ELSE 0)

RECURSIVE BusyUpTo(_)
BusyUpTo(c) == IF c = 0 THEN 0 ELSE BusyIn(c) + BusyUpTo(c - 1)

\* Pool workers that are running a unit.
Busy == BusyUpTo(cur)

\* Mutation of SendersAlive: a crashed unit never releases its sender handle.
SendersLeaked(c) ==
    (IF txCaller[c] THEN 1 ELSE 0)
    + Cardinality({u \in UnitIds(c) :
                      units[c][u].pc \in {"queued", "lock", "send", "crashed"}})

\* Arc clones of the sender still alive: the caller's and one per unit closure
\* that has not finished.
SendersAlive(c) ==
    (IF txCaller[c] THEN 1 ELSE 0)
    + Cardinality({u \in UnitIds(c) : units[c][u].pc \in {"queued", "lock", "send"}})

NoAgg == [pc |-> "none", n |-> 0, new_weights |-> <<>>]

\* ---- initial state ------------------------------------------------------

\* The arguments of MtNetwork::new are drawn here; nothing is built yet.
\* section_size = 0 and threads = 0 are arguments new rejects; the population
\* has at least one neuron.

Construct(limit) ==
    /\ callLimit = limit
    /\ section_size \in 0..MaxSectionSize
    /\ threads \in 0..MaxThreads
    /\ neurons \in 1..MaxNeurons
    /\ lr = LearningRate
    /\ weights = <<>>
    /\ spawned = 0
    /\ callerPc = "new"
    /\ cur = 0
    /\ i = 0
    /\ new_weights = <<>>
    /\ kind = [c \in Calls |-> "none"]
    /\ status = [c \in Calls |-> "none"]
    /\ epochs = [c \in Calls |-> 0]
    /\ units = [c \in Calls |-> <<>>]
    /\ agg = [c \in Calls |-> NoAgg]
    /\ chan = [c \in Calls |-> <<>>]
    /\ rxAlive = [c \in Calls |-> FALSE]
    /\ txCaller = [c \in Calls |-> FALSE]
    /\ lockHolder = [c \in Calls |-> 0]
    /\ poisoned = [c \in Calls |-> FALSE]
    /\ result = [c \in Calls |-> <<>>]
    /\ received = [c \in Calls |-> <<>>]

\* A client that makes at most MaxCalls training calls.
Init == Construct(MaxCalls)

\* A client that makes a sequence of up to MaxCallSeq training calls.
InitSeq == Construct(MaxCallSeq)

\* ---- MtNetwork::new -----------------------------------------------------

\* ThreadPool::new(threads).unwrap(): spawns the workers, fails for 0 threads.
NewPool ==
    /\ callerPc = "new"
    /\ IF threads = 0
         THEN callerPc' = "ctor_failed" /\ spawned' = spawned
         ELSE callerPc' = "check" /\ spawned' = threads
    /\ UNCHANGED <<config, weights, cur, i, new_weights, callVars, units, agg,
                   chanVars>>

\* The configuration passes assert_eq!(neurons % section_size, 0).
Divisible == section_size # 0 /\ neurons % section_size = 0

\* assert_eq!(neurons % section_size, 0), then the weights are drawn.
NewCheck ==
    /\ callerPc = "check"
    /\ IF Divisible
         THEN /\ weights' = [k \in 1..neurons |-> InitWeight(k)]
              /\ callerPc' = "idle"
         ELSE /\ weights' = weights
              /\ callerPc' = "ctor_failed"
    /\ UNCHANGED <<config, spawned, cur, i, new_weights, callVars, units, agg,
                   chanVars>>

\* ---- Strategy A: train_iteration, the calling thread --------------------

\* let (w_response, receiver) = mpsc::channel(); Arc::new(Mutex::new(..))
CallA ==
    /\ callerPc = "idle"
    /\ cur < callLimit
    /\ \E epoch \in 0..MaxEpochs :
        /\ epochs' = [epochs EXCEPT ![cur + 1] = epoch]
        /\ cur' = cur + 1
        /\ kind' = [kind EXCEPT ![cur + 1] = "A"]
        /\ status' = [status EXCEPT ![cur + 1] = "active"]
        /\ rxAlive' = [rxAlive EXCEPT ![cur + 1] = TRUE]
        /\ txCaller' = [txCaller EXCEPT ![cur + 1] = TRUE]
        /\ callerPc' = "A_dispatch"
        /\ i' = 0
    /\ UNCHANGED <<config, weights, spawned, new_weights, result, received,
                   units, agg, chan, lockHolder, poisoned>>

\* The work unit train_iteration builds for loop index s.
AUnit(s) ==
    [pc |-> "queued", sec |-> s, lo |-> SliceLo(s), sendFailed |-> FALSE,
     local_weights |-> Slice(s), patches |-> SectionVector(s), lr_new |-> lr]

\* Mutation of DispatchCount: one unit per section.
DispatchPerSection == NumSections

\* Number of iterations of `for i in 0..self.threads`.
DispatchCount == threads

\* One iteration of `for i in 0..self.threads`: slice, clone, execute.
ADispatch ==
    /\ callerPc = "A_dispatch"
    /\ i < DispatchCount
    /\ IF SliceInRange(i)
         THEN /\ units' = [units EXCEPT ![cur] = Append(@, AUnit(i))]
              /\ i' = IF i + 1 < DispatchCount THEN i + 1 ELSE 0
              /\ callerPc' = IF i + 1 < DispatchCount THEN "A_dispatch" ELSE "A_recv"
              /\ new_weights' = <<>>
              /\ UNCHANGED <<status, rxAlive, txCaller>>
         ELSE \* slice index out of range: the call panics, its locals drop
              /\ callerPc' = "panicked"
              /\ status' = [status EXCEPT ![cur] = "panicked"]
              /\ rxAlive' = [rxAlive EXCEPT ![cur] = FALSE]
              /\ txCaller' = [txCaller EXCEPT ![cur] = FALSE]
              /\ UNCHANGED <<units, i, new_weights>>
    /\ UNCHANGED <<config, weights, spawned, cur, kind, epochs, result, received,
                   agg, chan, lockHolder, poisoned>>

\* Number of messages the receive loops wait for.
RecvCount == NumSections

\* Mutation of ChanOf: one channel is shared by all training calls.
ChanShared(c) == 1

\* The channel a call's units send on and its consumer receives from:
\* mpsc::channel() is called anew in every training call.
ChanOf(c) == c

\* Mutation of Concat: the message is put in front.
ConcatFront(acc, msg) == msg \o acc

\* new_weights.append(msg.as_mut()): the message's vectors go to the end.
Concat(acc, msg) == acc \o msg

\* What the consumer of a call records about a message it received.
Tag(msg) == [src |-> msg.src, len |-> Len(msg.w)]

\* One iteration of the receive loop: receiver.recv().unwrap(), append.
ARecv ==
    /\ callerPc = "A_recv"
    /\ i < RecvCount
    /\ IF chan[ChanOf(cur)] # <<>>
         THEN /\ new_weights' = Concat(new_weights, Head(chan[ChanOf(cur)]).w)
              /\ received' = [received EXCEPT
                                ![cur] = Append(@, Tag(Head(chan[ChanOf(cur)])))]
              /\ chan' = [chan EXCEPT ![ChanOf(cur)] = Tail(@)]
              /\ i' = i + 1
              /\ UNCHANGED <<callerPc, status, rxAlive, txCaller>>
         ELSE \* recv() fails only once every sender is gone: unwrap panics
              /\ SendersAlive(cur) = 0
              /\ callerPc' = "panicked"
              /\ status' = [status EXCEPT ![cur] = "panicked"]
              /\ rxAlive' = [rxAlive EXCEPT ![cur] = FALSE]
              /\ txCaller' = [txCaller EXCEPT ![cur] = FALSE]
              /\ UNCHANGED <<new_weights, received, chan, i>>
    /\ UNCHANGED <<config, weights, spawned, cur, kind, epochs, result, units, agg,
                   lockHolder, poisoned>>

\* Mutation of StoredAfterReturn: the result replaces the stored population.
StoredResult(w, r) == r

\* self.weights when train_iteration returns: new_weights is handed to the
\* caller and never assigned to self.weights.
StoredAfterReturn(w, r) == w

\* return new_weights; the receiver and the caller's sender handle drop.
AReturn ==
    /\ callerPc = "A_recv"
    /\ i = RecvCount
    /\ result' = [result EXCEPT ![cur] = new_weights]
    /\ status' = [status EXCEPT ![cur] = "returned"]
    /\ rxAlive' = [rxAlive EXCEPT ![cur] = FALSE]
    /\ txCaller' = [txCaller EXCEPT ![cur] = FALSE]
    /\ callerPc' = "idle"
    /\ i' = 0
    /\ new_weights' = <<>>
    /\ weights' = StoredAfterReturn(weights, new_weights)
    /\ UNCHANGED <<config, spawned, cur, kind, epochs, received, units, agg, chan,
                   lockHolder, poisoned>>

\* ---- Strategy B: train_complete_iterations, the calling thread ----------

\* The channel is created and the aggregator unit is submitted first.
CallB ==
    /\ callerPc = "idle"
    /\ cur < callLimit
    /\ \E e \in 0..MaxEpochs :
        epochs' = [epochs EXCEPT ![cur + 1] = e]
    /\ cur' = cur + 1
    /\ kind' = [kind EXCEPT ![cur + 1] = "B"]
    /\ status' = [status EXCEPT ![cur + 1] = "active"]
    /\ rxAlive' = [rxAlive EXCEPT ![cur + 1] = TRUE]
    /\ txCaller' = [txCaller EXCEPT ![cur + 1] = TRUE]
    /\ agg' = [agg EXCEPT ![cur + 1] = [pc |-> "queued", n |-> 0, new_weights |-> <<>>]]
    /\ callerPc' = "B_dispatch"
    /\ i' = 0
    /\ UNCHANGED <<config, weights, spawned, new_weights, result, received,
                   units, chan, lockHolder, poisoned>>

\* The section unit train_complete_iterations builds: no slice of the stored
\* population, its vectors are drawn when it runs.
BUnit(s) ==
    [pc |-> "queued", sec |-> s, lo |-> 0, sendFailed |-> FALSE,
     local_weights |-> <<>>, patches |-> <<>>, lr_new |-> lr]

\* One iteration of `for _ in 0..(neurons / section_size)`: execute a unit.
BDispatch ==
    /\ callerPc = "B_dispatch"
    /\ i < NumSections
    /\ units' = [units EXCEPT ![cur] = Append(@, BUnit(i))]
    /\ i' = i + 1
    /\ UNCHANGED <<config, weights, spawned, callerPc, cur, new_weights, callVars,
                   agg, chanVars>>

\* Mutation of BReturnGuard: the call waits for its aggregator.
BReturnJoins(c) == agg[c].pc = "done"

\* What train_complete_iterations waits for before it returns: nothing.
BReturnGuard(c) == TRUE

\* The function returns: its Arc of the sender drops.
BReturn ==
    /\ callerPc = "B_dispatch"
    /\ i = NumSections
    /\ BReturnGuard(cur)
    /\ txCaller' = [txCaller EXCEPT ![cur] = FALSE]
    /\ status' = [status EXCEPT ![cur] = "returned"]
    /\ callerPc' = "idle"
    /\ i' = 0
    /\ UNCHANGED <<config, weights, spawned, cur, new_weights, kind, epochs, result,
                   received, units, agg, chan, rxAlive, lockHolder, poisoned>>

\* ---- the work units, run by the pool's workers --------------------------

\* The vectors a section unit has computed when it reaches its send.
UnitBody(c, u) ==
    IF kind[c] = "A"
      THEN AUnitBody(units[c][u].local_weights, units[c][u].patches,
                     units[c][u].lr_new)
      ELSE BUnitBody(c, u, epochs[c], units[c][u].lr_new)

\* An idle worker takes the unit and runs its update loop.
StartUnit(c, u) ==
    /\ u \in UnitIds(c)
    /\ units[c][u].pc = "queued"
    /\ Busy < spawned
    /\ units' = [units EXCEPT ![c][u].pc = "lock",
                              ![c][u].local_weights = UnitBody(c, u)]
    /\ UNCHANGED <<config, weights, spawned, callerVars, callVars, agg, chanVars>>

\* thread_sender.lock().unwrap(): blocks while held, panics when poisoned.
UnitLock(c, u) ==
    /\ u \in UnitIds(c)
    /\ units[c][u].pc = "lock"
    /\ lockHolder[c] = 0
    /\ IF poisoned[c]
         THEN /\ units' = [units EXCEPT ![c][u].pc = "lock_panicked"]
              /\ UNCHANGED lockHolder
         ELSE /\ units' = [units EXCEPT ![c][u].pc = "send"]
              /\ lockHolder' = [lockHolder EXCEPT ![c] = u]
    /\ UNCHANGED <<config, weights, spawned, callerVars, callVars, agg, chan,
                   rxAlive, txCaller, poisoned>>

\* Mutation of Payload: only the first vector is sent.
PayloadFirst(c, u) == SubSeq(units[c][u].local_weights, 1, 1)

\* The value moved into send(): the whole of local_weights.
Payload(c, u) == units[c][u].local_weights

\* Mutation of GuardAfterSend: the unit keeps the guard.
GuardKept(u) == u

\* Holder of the Mutex after the send statement: the MutexGuard is a
\* temporary and drops at the end of the statement.
GuardAfterSend(u) == 0

\* .send(local_weights).unwrap(); the guard and the closure's Arc then drop.
UnitSend(c, u) ==
    /\ u \in UnitIds(c)
    /\ units[c][u].pc = "send"
    /\ IF rxAlive[c]
         THEN /\ chan' = [chan EXCEPT ![ChanOf(c)] =
                                Append(@, [src |-> <<c, u>>, w |-> Payload(c, u)])]
              /\ units' = [units EXCEPT ![c][u].pc = "done"]
              /\ UNCHANGED poisoned
         ELSE \* send() returns Err, unwrap panics with the guard held
              /\ units' = [units EXCEPT ![c][u].pc = "send_panicked",
                                        ![c][u].sendFailed = TRUE]
              /\ poisoned' = [poisoned EXCEPT ![c] = TRUE]
              /\ UNCHANGED chan
    /\ lockHolder' = [lockHolder EXCEPT
                        ![c] = IF rxAlive[c] THEN GuardAfterSend(u) ELSE 0]
    /\ UNCHANGED <<config, weights, spawned, callerVars, callVars, agg, rxAlive,
                   txCaller>>

\* An idle worker takes the aggregator unit.
StartAgg(c) ==
    /\ agg[c].pc = "queued"
    /\ Busy < spawned
    /\ agg' = [agg EXCEPT ![c].pc = "recv"]
    /\ UNCHANGED <<config, weights, spawned, callerVars, callVars, units, chanVars>>

\* One iteration of the aggregator loop: Ok appends, Err is ignored.
AggRecv(c) ==
    /\ agg[c].pc = "recv"
    /\ agg[c].n < RecvCount
    /\ IF chan[ChanOf(c)] # <<>>
         THEN /\ agg' = [agg EXCEPT
                           ![c].n = @ + 1,
                           ![c].new_weights = Concat(@, Head(chan[ChanOf(c)]).w)]
              /\ received' = [received EXCEPT
                                ![c] = Append(@, Tag(Head(chan[ChanOf(c)])))]
              /\ chan' = [chan EXCEPT ![ChanOf(c)] = Tail(@)]
         ELSE /\ SendersAlive(c) = 0
              /\ agg' = [agg EXCEPT ![c].n = @ + 1]
              /\ UNCHANGED <<chan, received>>
    /\ UNCHANGED <<config, weights, spawned, callerVars, kind, status, epochs,
                   result, units, rxAlive, txCaller, lockHolder, poisoned>>

\* The loop is over: println!, the closure ends and the receiver drops.
AggFinish(c) ==
    /\ agg[c].pc = "recv"
    /\ agg[c].n = RecvCount
    /\ agg' = [agg EXCEPT ![c].pc = "done"]
    /\ rxAlive' = [rxAlive EXCEPT ![c] = FALSE]
    /\ UNCHANGED <<config, weights, spawned, callerVars, callVars, units, chan,
                   txCaller, lockHolder, poisoned>>

\* ---- a pool that starts its units in submission order --------------------

\* Mutation of EarlierQueued: the pool starts queued units in any order.
NoOrder(c, pos) == FALSE

\* Some unit submitted before position pos of call c is still queued.  Within
\* a call, position 0 is the aggregator and position u is section unit u.
EarlierQueued(c, pos) ==
    \/ \E d \in Calls :
          /\ d < c
          /\ \/ agg[d].pc = "queued"
             \/ \E v \in UnitIds(d) : units[d][v].pc = "queued"
    \/ pos > 0 /\ agg[c].pc = "queued"
    \/ \E v \in UnitIds(c) : v < pos /\ units[c][v].pc = "queued"

\* An idle worker takes the section unit at the head of the queue.
FifoStartUnit(c, u) == ~EarlierQueued(c, u) /\ StartUnit(c, u)

\* An idle worker takes the aggregator unit at the head of the queue.
FifoStartAgg(c) == ~EarlierQueued(c, 0) /\ StartAgg(c)

\* ---- faults: a work unit that terminates abnormally ----------------------

\* A section unit crashes while it runs, before it takes the lock and sends.
UnitCrash(c, u) ==
    /\ u \in UnitIds(c)
    /\ units[c][u].pc = "lock"
    /\ units' = [units EXCEPT ![c][u].pc = "crashed"]
    /\ UNCHANGED <<config, weights, spawned, callerVars, callVars, agg, chanVars>>

\* The aggregator unit crashes inside its loop: the receiver drops.
AggCrash(c) ==
    /\ agg[c].pc = "recv"
    /\ agg' = [agg EXCEPT ![c].pc = "crashed"]
    /\ rxAlive' = [rxAlive EXCEPT ![c] = FALSE]
    /\ UNCHANGED <<config, weights, spawned, callerVars, callVars, units, chan,
                   txCaller, lockHolder, poisoned>>

\* ---- specifications -----------------------------------------------------

Caller ==
    \/ NewPool
    \/ NewCheck
    \/ CallA
    \/ ADispatch
    \/ ARecv
    \/ AReturn
    \/ CallB
    \/ BDispatch
    \/ BReturn

Pool ==
    \/ \E c \in Calls, u \in UnitSlots : StartUnit(c, u)
    \/ \E c \in Calls, u \in UnitSlots : UnitLock(c, u)
    \/ \E c \in Calls, u \in UnitSlots : UnitSend(c, u)
    \/ \E c \in Calls : StartAgg(c)
    \/ \E c \in Calls : AggRecv(c)
    \/ \E c \in Calls : AggFinish(c)

Crash == \E c \in Calls, u \in UnitSlots : UnitCrash(c, u)

AggFault == \E c \in Calls : AggCrash(c)

Next == Caller \/ Pool

\* The program alone: no unit crashes.
Spec == Init /\ [][Next]_vars

\* The program alone, with a client that makes a sequence of calls.
SpecSeq == InitSeq /\ [][Next]_vars

\* The program with section units that may crash before they send.
SpecCrash == Init /\ [][Next \/ Crash]_vars

\* The program with any work unit, the aggregator included, liable to crash.
SpecFault == Init /\ [][Next \/ Crash \/ AggFault]_vars

\* The program with a pool that keeps running what it can run and a caller
\* that keeps executing: no unit crashes.
FairSpec == Spec /\ WF_vars(Caller) /\ WF_vars(Pool)

\* A client that only calls train_complete_iterations.
CallerB ==
    \/ NewPool
    \/ NewCheck
    \/ CallB
    \/ BDispatch
    \/ BReturn

PoolFifo ==
    \/ \E c \in Calls, u \in UnitSlots : FifoStartUnit(c, u)
    \/ \E c \in Calls, u \in UnitSlots : UnitLock(c, u)
    \/ \E c \in Calls, u \in UnitSlots : UnitSend(c, u)
    \/ \E c \in Calls : FifoStartAgg(c)
    \/ \E c \in Calls : AggRecv(c)
    \/ \E c \in Calls : AggFinish(c)

NextFifo == CallerB \/ PoolFifo

\* A sequence of train_complete_iterations calls on a pool that starts its
\* units in submission order and keeps running what it can run.
FifoSpec ==
    InitSeq /\ [][NextFifo]_vars /\ WF_vars(CallerB) /\ WF_vars(PoolFifo)

\* ---- shared vocabulary of the properties --------------------------------

ACalls == {c \in Calls : kind[c] = "A"}
BCalls == {c \in Calls : kind[c] = "B"}

\* What section s must produce in Strategy A: vector j of the section updated
\* once with sample j of the section's patch sequence.
SectionOutput(s) ==
    [j \in 1..section_size |-> Oja(<<s, j - 1>>, InitWeight(s * section_size + j), lr)]

\* Block k (0-based) of a population r.
Block(r, k) == SubSeq(r, k * section_size + 1, (k + 1) * section_size)

\* Number of blocks of r equal to b.
BlockCount(r, b) ==
    Cardinality({k \in 0..(Len(r) \div section_size) - 1 : Block(r, k) = b})

\* ---- C1 ------------------------------------------------------------------
\* C1: whenever train_iteration has returned, the returned population holds
\* exactly neuron_count vectors and, as a multiset of section blocks, it is
\* the outputs of sections 0 .. neuron_count/section_size - 1, each exactly
\* once, whatever the order in which the work units completed.
C1_ResultCompleteness ==
    \A c \in ACalls :
        status[c] = "returned" =>
            /\ Len(result[c]) = neurons
            /\ \A s \in 0..NumSections - 1 :
                   BlockCount(result[c], SectionOutput(s)) = 1

\* A call over at least two sections has returned.
C1_Witness ==
    \E c \in ACalls : status[c] = "returned" /\ NumSections >= 2

\* ---- C2 ------------------------------------------------------------------
\* C2: for every configuration accepted by construction, a call to
\* train_iteration eventually returns a population of length neuron_count,
\* provided the pool eventually runs every submitted unit to completion.
\* (With no Strategy B call before it no aggregator occupies a worker, and
\* under FairSpec the pool then runs every unit it is given to its end.)
C2_EventuallyReturns ==
    \A c \in Calls :
        (kind[c] = "A" /\ BCalls = {})
            ~> (status[c] = "returned" /\ Len(result[c]) = neurons)

\* ---- C3 ------------------------------------------------------------------
\* C3: after a call to train_complete_iterations, under fair scheduling and
\* with no unit crashing, the aggregator eventually has received exactly
\* neuron_count/section_size messages and has terminated.
C3_AggregatorTerminates ==
    \A c \in Calls :
        (kind[c] = "B") ~>
            (/\ agg[c].pc = "done"
             /\ Len(agg[c].new_weights) = NumSections * section_size
             /\ chan[c] = <<>>)

\* ---- C4 ------------------------------------------------------------------
\* C4: construction with neuron_count not divisible by section_size fails,
\* and it fails before any worker thread has been spawned.
C4_FailsBeforeSpawn ==
    (section_size # 0 /\ neurons % section_size # 0) =>
        /\ callerPc \in {"new", "check", "ctor_failed"}
        /\ callerPc = "ctor_failed" => spawned = 0

\* ---- C5 ------------------------------------------------------------------
\* Population indices (0-based) held by unit u of call c.
Held(c, u) ==
    units[c][u].lo .. (units[c][u].lo + Len(units[c][u].local_weights) - 1)

\* The dispatch loop of train_iteration call c has run to its end.
Dispatched(c) ==
    /\ kind[c] = "A"
    /\ status[c] = "returned" \/ (cur = c /\ callerPc = "A_recv")

\* C5: the work units dispatched by one train_iteration call partition the
\* population exactly: unit i holds [i*section_size, (i+1)*section_size),
\* every index in 0..neuron_count is held by exactly one dispatched unit and
\* no unit holds an index outside 0..neuron_count.
C5_ExactPartition ==
    \A c \in ACalls :
        /\ \A u \in UnitIds(c) :
               Held(c, u) = (units[c][u].sec * section_size)
                                .. ((units[c][u].sec + 1) * section_size - 1)
        /\ \A u \in UnitIds(c) : Held(c, u) \subseteq 0..(neurons - 1)
        /\ \A k \in 0..(neurons - 1) :
               Cardinality({u \in UnitIds(c) : k \in Held(c, u)}) <= 1
        /\ Dispatched(c) =>
               \A k \in 0..(neurons - 1) :
                   Cardinality({u \in UnitIds(c) : k \in Held(c, u)}) = 1

\* ---- C6 ------------------------------------------------------------------
\* A unit that has been submitted and has not yet ended.
Live(c, u) == units[c][u].pc \in {"queued", "lock", "send"}

\* C6: during a train_iteration call every weight vector being updated is
\* held by exactly one work unit: no two live units of the call hold the same
\* population index, the vectors a unit works on are its own copies of its
\* section, and the stored population is never touched by a unit: it keeps
\* the values drawn at construction while the units update theirs.
C6_ExclusiveCustody ==
    /\ \A c \in ACalls : \A u, v \in UnitIds(c) :
           (u # v /\ Live(c, u) /\ Live(c, v)) => Held(c, u) \cap Held(c, v) = {}
    /\ \A c \in ACalls : \A u \in UnitIds(c) :
           \A j \in 1..Len(units[c][u].local_weights) :
               units[c][u].local_weights[j].id = <<0, 0, units[c][u].lo + j>>
    /\ callerPc \notin {"new", "check", "ctor_failed"} =>
           weights = [k \in 1..neurons |-> InitWeight(k)]

\* Two units of one train_iteration call run at the same time, both having
\* updated their vectors.
C6_Witness ==
    \E c \in ACalls : \E u, v \in UnitIds(c) :
        /\ u # v
        /\ units[c][u].pc \in {"lock", "send"}
        /\ units[c][v].pc \in {"lock", "send"}
        /\ units[c][u].local_weights[1].hist # <<>>
        /\ units[c][v].local_weights[1].hist # <<>>

\* ---- C7 ------------------------------------------------------------------
\* Messages of call c that section units have sent.
Sent(c) == Cardinality({u \in UnitIds(c) : units[c][u].pc = "done"})

\* C7: train_complete_iterations is fire-and-forget: while it runs the caller
\* is never blocked (its next step is always enabled, whatever the units do),
\* when it has returned it has submitted one aggregator unit and
\* neuron_count/section_size section units and it returns no weights, and no
\* message was received by the caller: every message sent is still in the
\* channel or has been taken by the aggregator.
C7_FireAndForget ==
    /\ callerPc = "B_dispatch" => ENABLED (BDispatch \/ BReturn)
    /\ \A c \in BCalls :
        /\ status[c] = "returned" =>
              /\ agg[c].pc # "none"
              /\ Len(units[c]) = NumSections
              /\ result[c] = <<>>
        /\ Len(chan[c]) * section_size + Len(agg[c].new_weights)
              = Sent(c) * section_size

\* The call has returned while no submitted unit has finished, and the
\* aggregator can never terminate: it holds the only worker, blocked in recv.
C7_Witness ==
    \E c \in BCalls :
        /\ status[c] = "returned"
        /\ NumSections >= 1
        /\ \A u \in UnitIds(c) : units[c][u].pc = "queued"
        /\ agg[c].pc = "recv"
        /\ spawned = 1

\* ---- C8 ------------------------------------------------------------------
\* C8: the population returned by train_iteration is reassembled in partition
\* order: block k of the result is the output of section k.
C8_PartitionOrder ==
    \A c \in ACalls :
        status[c] = "returned" =>
            \A k \in 0..NumSections - 1 : Block(result[c], k) = SectionOutput(k)

\* ---- C9 ------------------------------------------------------------------
\* Some work unit of call c has ended without sending its message.
SomeUnitCrashed(c) == \E u \in UnitIds(c) : units[c][u].pc = "crashed"

\* C9: in Strategy A, once a dispatched work unit has terminated without
\* sending, train_iteration neither returns nor raises an error: a call in
\* progress stays in progress for ever, the caller keeping its sender handle
\* so that the channel is never disconnected.
C9_CrashBlocksForever ==
    [][\A c \in ACalls :
          (SomeUnitCrashed(c) /\ status[c] = "active") =>
              (status'[c] = "active" /\ txCaller'[c] /\ rxAlive'[c])]_vars

\* ---- C10 -----------------------------------------------------------------
\* C10: a send that fails because the receiver is gone is swallowed in
\* Strategy B, the unit finishing normally, and terminates the sending unit
\* abnormally in Strategy A.
C10_SendFailureHandling ==
    \A c \in Calls : \A u \in UnitIds(c) :
        units[c][u].sendFailed =>
            /\ kind[c] = "B" => units[c][u].pc = "done"
            /\ kind[c] = "A" => units[c][u].pc = "send_panicked"

\* Every submitted section unit of call c has sent or has crashed.
OthersComplete(c) ==
    \A u \in UnitIds(c) : units[c][u].pc \in {"done", "crashed"}

\* C11: in Strategy B, when a section unit crashes before it sends, the
\* aggregator raises no error and does not hang: once the call has returned
\* and every other unit has sent, no sender handle is left, so a running
\* aggregator can always take its next loop step; an aggregator that has
\* terminated has made exactly neurons/section_size loop iterations and has
\* appended fewer than neurons/section_size messages.
C11_CrashedUnitTolerated ==
    \A c \in BCalls : SomeUnitCrashed(c) =>
        /\ agg[c].pc \in {"queued", "recv", "done"}
        /\ (status[c] = "returned" /\ OthersComplete(c) /\ agg[c].pc = "recv")
              => /\ SendersAlive(c) = 0
                 /\ ENABLED (AggRecv(c) \/ AggFinish(c))
        /\ agg[c].pc = "done" =>
              /\ agg[c].n = NumSections
              /\ Len(received[c]) < NumSections
              /\ Len(received[c]) = Sent(c)
              /\ Len(agg[c].new_weights) = Sent(c) * section_size

\* A Strategy B aggregator has terminated with one unit crashed and another
\* unit's message appended.
C11_Witness ==
    \E c \in BCalls :
        /\ SomeUnitCrashed(c)
        /\ agg[c].pc = "done"
        /\ Len(received[c]) >= 1

\* The caller of Strategy A call c has received every message its units sent
\* and waits for more.
Starved(c) ==
    /\ cur = c
    /\ callerPc = "A_recv"
    /\ \A u \in UnitIds(c) : units[c][u].pc = "done"
    /\ i = Len(units[c])
    /\ i < RecvCount

\* C12: train_iteration returns only when threads = neurons/section_size.
\* With fewer threads it submits threads units, awaits more messages than
\* that and stays blocked in its receive; with more threads it aborts on the
\* first out-of-range section, after submitting the in-range units.
C12_ReturnsOnlyWhenMatched ==
    \A c \in ACalls :
        /\ status[c] = "returned" => threads = NumSections
        /\ threads < NumSections =>
              /\ status[c] = "active"
              /\ Len(units[c]) <= threads
              /\ Len(received[c]) <= Len(units[c])
              /\ Starved(c) => ~ENABLED (ARecv \/ AReturn)
        /\ threads > NumSections =>
              /\ status[c] \in {"active", "panicked"}
              /\ ~(cur = c /\ callerPc = "A_recv")
              /\ status[c] = "panicked" =>
                    /\ Len(units[c]) = NumSections
                    /\ \A u \in UnitIds(c) : units[c][u].sec = u - 1
                    /\ result[c] = <<>>

\* A train_iteration call with fewer threads than sections has received the
\* message of every unit it submitted and is blocked.
C12_Witness ==
    \E c \in ACalls : threads < NumSections /\ threads >= 1 /\ Starved(c)

\* A train_iteration call with more threads than sections has aborted with
\* its in-range units submitted.
C12_WitnessAbort ==
    \E c \in ACalls :
        threads > NumSections /\ status[c] = "panicked" /\ Len(units[c]) >= 1

\* The aggregator of call c is blocked in receiver.recv().
AggBlocked(c) ==
    /\ agg[c].pc = "recv"
    /\ agg[c].n < RecvCount
    /\ chan[ChanOf(c)] = <<>>
    /\ SendersAlive(c) > 0

\* Every pool worker is blocked in an aggregator's receive while section
\* units are still queued.
AllWorkersBlocked ==
    /\ spawned >= 1
    /\ Cardinality({c \in Calls : AggBlocked(c)}) = spawned
    /\ \E c \in Calls : \E u \in UnitIds(c) : units[c][u].pc = "queued"

\* C13: with at least two threads, a pool that starts queued units in
\* submission order and no crash, a sequence of train_complete_iterations
\* calls never reaches a state where every worker is blocked in an
\* aggregator's receive while section units are queued, and every aggregator
\* eventually terminates.
C13_FifoDeadlockFree ==
    /\ [](threads >= 2 => ~AllWorkersBlocked)
    /\ \A c \in Calls : (threads >= 2 /\ kind[c] = "B") ~> (agg[c].pc = "done")

\* With two workers, the aggregators of two calls run at the same time while
\* section units of the later call are queued.
C13_Witness ==
    /\ threads = 2
    /\ agg[1].pc = "recv"
    /\ agg[2].pc = "recv"
    /\ \E u \in UnitIds(2) : units[2][u].pc = "queued"

\* The vectors section unit <<c, u>> computed, which are the message it sent.
OutputOf(src) == units[src[1]][src[2]].local_weights

\* Concatenation of the first k messages the consumer of call c received, in
\* the order they arrived.
RECURSIVE ArrivalConcat(_, _)
ArrivalConcat(c, k) ==
    IF k = 0 THEN <<>>
    ELSE ArrivalConcat(c, k - 1) \o OutputOf(received[c][k].src)

\* C14: the population train_iteration accumulates and returns is the
\* concatenation of the messages it received, in arrival order, each
\* message's vectors in their order inside the section.
C14_ArrivalOrderConcat ==
    \A c \in ACalls :
        /\ (cur = c /\ callerPc = "A_recv") =>
              new_weights = ArrivalConcat(c, Len(received[c]))
        /\ status[c] = "returned" =>
              /\ Len(received[c]) = NumSections
              /\ result[c] = ArrivalConcat(c, NumSections)

\* A returned result in which the output of section 1 comes before the
\* output of section 0.
C14_Witness ==
    \E c \in ACalls :
        /\ status[c] = "returned"
        /\ NumSections >= 2
        /\ units[c][received[c][1].src[2]].sec = 1
        /\ units[c][received[c][2].src[2]].sec = 0
        /\ Block(result[c], 0) = SectionOutput(1)
        /\ Block(result[c], 1) = SectionOutput(0)

\* C15: every training call has its own result channel: every message a
\* call's consumer has received, and every message waiting on the call's
\* channel, was sent by a section unit the same call submitted, and no
\* consumer receives more than neurons/section_size messages.
C15_ChannelIsolation ==
    \A c \in Calls : kind[c] # "none" =>
        /\ \A k \in 1..Len(received[c]) :
              /\ received[c][k].src[1] = c
              /\ received[c][k].src[2] \in UnitIds(c)
        /\ \A k \in 1..Len(chan[ChanOf(c)]) : chan[ChanOf(c)][k].src[1] = c
        /\ Len(received[c]) <= NumSections

\* The consumer of the second call has received a message while section
\* units of the first call, a train_complete_iterations call, have yet to
\* send.
C15_Witness ==
    /\ kind[1] = "B"
    /\ Len(received[2]) >= 1
    /\ \E u \in UnitIds(1) : units[1][u].pc \in {"queued", "lock", "send"}

\* Vector j (1-based) of section s after one update with sample j - 1 of the
\* section's sample sequence and the configured learning rate.
UpdatedOnce(s, j) ==
    [id |-> <<0, 0, s * section_size + j>>,
     hist |-> <<[sample |-> <<s, j - 1>>, lr |-> lr]>>]

\* C16: in train_iteration every weight vector of a dispatched section gets
\* exactly one application of the update rule, vector j of section s with
\* sample j of the section's sequence and the configured learning rate,
\* before the section is sent, whatever the epoch argument is.
C16_OneUpdatePerVector ==
    \A c \in ACalls : epochs[c] \in 0..MaxEpochs /\
        \A u \in UnitIds(c) :
            /\ Len(units[c][u].local_weights) = section_size
            /\ units[c][u].pc = "queued" =>
                  \A j \in 1..section_size :
                      units[c][u].local_weights[j]
                          = InitWeight(units[c][u].sec * section_size + j)
            /\ units[c][u].pc # "queued" =>
                  \A j \in 1..section_size :
                      units[c][u].local_weights[j]
                          = UpdatedOnce(units[c][u].sec, j)
            /\ \A k \in 1..Len(chan[ChanOf(c)]) :
                  chan[ChanOf(c)][k].src = <<c, u>> =>
                      \A j \in 1..section_size :
                          chan[ChanOf(c)][k].w[j] = UpdatedOnce(units[c][u].sec, j)

\* A unit of a train_iteration call made with epoch argument 0 has sent the
\* second section, each vector updated once.
C16_Witness ==
    \E c \in ACalls : \E u \in UnitIds(c) :
        /\ epochs[c] = 0
        /\ units[c][u].sec = 1
        /\ units[c][u].pc = "done"
        /\ units[c][u].local_weights[section_size] = UpdatedOnce(1, section_size)

\* max(e - 1, 0).
UpdatesFor(e) == IF e >= 1 THEN e - 1 ELSE 0

\* Vector j of section unit u of Strategy B call c after n updates with the
\* samples at indices 0 .. n-1 of the call's sample sequence, in order.
UpdatedTimes(c, u, j, n) ==
    [id |-> <<c, u, j>>,
     hist |-> [k \in 1..n |-> [sample |-> <<-1, k - 1>>, lr |-> lr]]]

C17_WitnessZero ==
    \E c \in BCalls : \E u \in UnitIds(c) :
        /\ epochs[c] = 0
        /\ units[c][u].pc = "done"
        /\ units[c][u].local_weights[1].hist = <<>>

\* MtNetwork::new has returned the orchestrator.
Constructed == callerPc \notin {"new", "check", "ctor_failed"}

\* C18: no training call changes the orchestrator: from construction on, no
\* step of any sequence of calls changes section_size, threads, neurons, lr
\* or the stored population, which stays the population drawn at
\* construction; train_iteration does not store its result, so every unit of
\* every train_iteration call starts from vectors of that population.
C18_OrchestratorFrame ==
    /\ [][Constructed =>
            /\ section_size' = section_size
            /\ threads' = threads
            /\ neurons' = neurons
            /\ lr' = lr
            /\ weights' = weights]_vars
    /\ [](Constructed =>
            /\ weights = [k \in 1..neurons |-> InitWeight(k)]
            /\ lr = LearningRate
            /\ \A c \in ACalls : \A u \in UnitIds(c) :
                  \A j \in 1..Len(units[c][u].local_weights) :
                      units[c][u].local_weights[j].id = weights[units[c][u].lo + j].id)

\* Two train_iteration calls in a row have returned; the stored population
\* is neither result.
C18_Witness ==
    /\ kind[1] = "A" /\ status[1] = "returned"
    /\ kind[2] = "A" /\ status[2] = "returned"
    /\ NumSections >= 2
    /\ result[1] # weights
    /\ result[2] # weights

\* Number of messages of section unit <<c, u>> on the channel of call d or
\* already received by its consumer.
MsgsFromOn(c, u, d) ==
    Cardinality({k \in 1..Len(chan[ChanOf(d)]) : chan[ChanOf(d)][k].src = <<c, u>>})
    + Cardinality({k \in 1..Len(received[d]) : received[d][k].src = <<c, u>>})

RECURSIVE MsgsFromUpTo(_, _, _)
MsgsFromUpTo(c, u, d) ==
    IF d = 0 THEN 0 ELSE MsgsFromOn(c, u, d) + MsgsFromUpTo(c, u, d - 1)

\* Number of messages section unit <<c, u>> has sent.
MsgsFrom(c, u) == MsgsFromUpTo(c, u, cur)

\* Number of messages sent on the channel of call c.
SentOn(c) == Len(chan[ChanOf(c)]) + Len(received[c])

\* C19: in both strategies a section unit that completes has sent exactly one
\* message, as its last step, and a unit that has not completed has sent
\* none; every message carries exactly section_size vectors; so the messages
\* sent on a call's channel are at most the section units the call submitted.
C19_OneMessagePerUnit ==
    \A c \in Calls : kind[c] # "none" =>
        /\ \A u \in UnitIds(c) :
              MsgsFrom(c, u) = IF units[c][u].pc = "done" THEN 1 ELSE 0
        /\ \A k \in 1..Len(chan[ChanOf(c)]) :
              Len(chan[ChanOf(c)][k].w) = section_size
        /\ \A k \in 1..Len(received[c]) : received[c][k].len = section_size
        /\ SentOn(c) <= Len(units[c])
        /\ SentOn(c) = Sent(c)

\* A unit has sent its one message, a whole section of the largest size, and
\* the consumer of its call has received it.
C19_Witness ==
    \E c \in Calls : \E u \in UnitIds(c) :
        /\ section_size = MaxSectionSize
        /\ units[c][u].pc = "done"
        /\ MsgsFrom(c, u) = 1
        /\ \E k \in 1..Len(received[c]) :
              received[c][k] = [src |-> <<c, u>>, len |-> MaxSectionSize]

\* Section units of call c that are inside their send.
Sending(c) == {u \in UnitIds(c) : units[c][u].pc = "send"}

\* Section unit u of call c waits for the lock of the call's sender.
WaitsToSend(c, u) == u \in UnitIds(c) /\ units[c][u].pc = "lock"

\* C20: the sends on a call's channel are serialized by the lock of the
\* shared sender: at every state at most one unit of the call is inside its
\* send, and it holds the lock; the lock is released after each send, so
\* every unit that waits to send eventually proceeds.
C20_SendsSerialized ==
    /\ [](\A c \in Calls :
            /\ Cardinality(Sending(c)) <= 1
            /\ \A u \in Sending(c) : lockHolder[c] = u
            /\ lockHolder[c] # 0 => lockHolder[c] \in Sending(c))
    /\ \A c \in Calls : \A u \in UnitSlots :
          WaitsToSend(c, u) ~> ~WaitsToSend(c, u)

\* One unit of a call is inside its send while another unit of the same call
\* waits for the lock.
C20_Witness ==
    \E c \in Calls : \E u, v \in UnitIds(c) :
        /\ units[c][u].pc = "send"
        /\ units[c][v].pc = "lock"

====
